---- MODULE Spec2Model ----
(***************************************************************************)
(* The asynchronous task core of seq2func: the TaskManager registry with   *)
(* its cancellation tokens and reaper thread (src/src/tasks/               *)
(* task_manager.py), the task runner and the HTTP handlers of              *)
(* src/server.py, and the search pipeline GeneLiteratureSearch.search_gene *)
(* (src/src/workflows/gene_search.py).                                     *)
(*                                                                         *)
(* Every TaskManager method runs its body under self._lock, so each method *)
(* is one atomic action.  A thread's steps between two such calls are      *)
(* separate actions, so other threads interleave between them.             *)
(*                                                                         *)
(* Python objects outlive their dictionary entry while someone holds a     *)
(* reference: task_info[t] and token_cancelled[t] are the TaskInfo and     *)
(* CancellationToken objects, tasks and cancellation_tokens are the key    *)
(* sets of the two dictionaries that refer to them.                        *)
(* TaskInfo.created_at is written once by the constructor and read only by *)
(* to_dict; it is left out of the state.                                   *)
(***************************************************************************)
EXTENDS Integers, Sequences, FiniteSets, TLC

\* ------------------------------------------------------------------ bounds
MaxTasks == 1       \* start requests the clients submit in one run
MaxNow == 3         \* the clock stops advancing at this tick
MaxPapers == 2      \* records the metadata fetch returns at most
MaxScore == 1       \* numeric score levels are 0..MaxScore
MaxTopN == 2        \* top_n of a request is in 1..MaxTopN

\* ------------------------------------------------------- program constants
RetentionTicks == 2  \* timedelta(hours=1); one tick of the clock is 30 minutes
NoneInt == -1
NullScore == -1
TotalSteps == 4
\* The 0.5 of the screening prompt; scores are counted in halves.
RelevanceThreshold == 1

TaskIds == 1..MaxTasks
Terminal == {"completed", "cancelled", "failed"}
Statuses == {"pending", "running"} \cup Terminal

NoProgress ==
    [current_step |-> "None", step_number |-> 0, total_steps |-> 0,
     papers_screened |-> NoneInt, total_papers |-> NoneInt, message |-> "None"]
NoResult == [results |-> << >>, count |-> NoneInt]
NoError == "None"
NoTaskInfo ==
    [status |-> "None", progress |-> NoProgress, result |-> NoResult,
     error |-> NoError, updated_at |-> 0]

\* The keyword names of the runner's call and the parameters search_gene takes.
RunnerKeywords ==
    {"gene_symbol", "gene_id", "max_results", "top_n", "include_reprogramming",
     "progress_callback", "cancellation_token"}
search_gene_params ==
    {"gene_symbol", "max_results", "top_n", "include_reprogramming",
     "custom_terms", "progress_callback", "cancellation_token"}
TypeErrorMessage == "search_gene() got an unexpected keyword argument"

VARIABLES
    now,                  \* datetime.now(), in ticks
    tasks,                \* keys of TaskManager.tasks
    cancellation_tokens,  \* keys of TaskManager.cancellation_tokens
    task_info,            \* the TaskInfo object of each id
    token_cancelled,      \* CancellationToken._cancelled of each id's token
    next_id,              \* ids handed out so far + 1 (uuid4 never repeats)
    requests_left,        \* start requests the clients have not yet sent
    call_kwargs,          \* keyword names the runner passes to search_gene
    pc,                   \* where each task's worker thread is
    cancellation_token,   \* the worker's local: "token" or "None"
    exc,                  \* the exception the worker's try block caught
    top_n,                \* the request's top_n
    papers,               \* number of records pubmed.fetch returned
    idx,                  \* loop index of the pipeline's current loop
    answer,               \* what the scoring call of the current paper gave
    late_calls,           \* history, for the tasks it is kept for: the
                          \* collaborator calls begun with the token set
    results,              \* the pipeline's screened records
    top_results,          \* the pipeline's ranked selection, then the value it
                          \* returned to the runner
    reaper_pc,            \* "wait" or "sweep"
    cutoff_time,          \* the reaper's local cutoff
    poll_pc,              \* where the status handler is
    poll_ref,             \* id of the TaskInfo the handler holds
    poll_view,            \* the fields the handler has read so far
    poll_held,            \* history: field combinations the object held
                          \* since the handler got its reference
    poll_seen,            \* history: the progress of each id's last answer
                          \* to the polling client
    manager_lock,         \* the thread that holds TaskManager._lock
    token_lock,           \* the thread that holds each CancellationToken._lock
    frame                 \* the manager, token or collaborator call each
                          \* thread is in, and how far it has got

registry == <<tasks, cancellation_tokens, task_info, token_cancelled>>
worker == <<pc, cancellation_token, exc, top_n, papers, idx, answer, late_calls, results,
            top_results>>
client == <<next_id, requests_left, call_kwargs, poll_seen>>
reaper == <<reaper_pc, cutoff_time>>
poller == <<poll_pc, poll_ref, poll_view>>
locks == <<manager_lock, token_lock, frame>>
data == <<now, registry, worker, client, reaper, poller, poll_held>>
vars == <<data, locks>>

\* ------------------------------------------------------------ TaskManager

\* What a poll reads of a TaskInfo.
Fields(info) ==
    [status |-> info.status, progress |-> info.progress,
     result |-> info.result, error |-> info.error]

\* An attribute store into the TaskInfo of id t (and the history of what the
\* object held while a status handler holds a reference to it).
Store(t, info) ==
    /\ task_info' = [task_info EXCEPT ![t] = info]
    /\ poll_held' = IF poll_pc # "idle" /\ poll_ref = t
                    THEN poll_held \cup {Fields(info)}
                    ELSE poll_held

\* A faulty update_status, which writes every task of the map.
update_status_of_all(t, status) ==
    /\ task_info' = [b \in DOMAIN task_info |->
                        IF t \in tasks /\ b \in tasks
                        THEN [task_info[b] EXCEPT !.status = status,
                                                  !.updated_at = now]
                        ELSE task_info[b]]
    /\ UNCHANGED <<tasks, cancellation_tokens, token_cancelled, poll_held>>

\* A faulty create_task, which registers the token but not the TaskInfo.
create_task_token_only(t) ==
    /\ cancellation_tokens' = cancellation_tokens \cup {t}
    /\ token_cancelled' = [token_cancelled EXCEPT ![t] = FALSE]
    /\ UNCHANGED <<tasks, task_info, poll_held>>
\* TaskManager.create_task: both entries are inserted under the lock.
create_task(t) ==
    /\ tasks' = tasks \cup {t}
    /\ cancellation_tokens' = cancellation_tokens \cup {t}
    /\ token_cancelled' = [token_cancelled EXCEPT ![t] = FALSE]
    /\ Store(t, [NoTaskInfo EXCEPT !.status = "pending", !.updated_at = now])

\* A faulty get_task, which answers with the object of a deleted entry.
get_task_stale(t) == task_info[t]
\* TaskManager.get_task: self.tasks.get(task_id), None for an absent key.
get_task(t) == IF t \in tasks THEN task_info[t] ELSE NoTaskInfo

update_status(t, status) ==
    /\ IF t \in tasks
       THEN Store(t, [task_info[t] EXCEPT !.status = status, !.updated_at = now])
       ELSE UNCHANGED <<task_info, poll_held>>
    /\ UNCHANGED <<tasks, cancellation_tokens, token_cancelled>>

\* A faulty update_progress, which clears the progress when the update
\* carries no item count.
update_progress_clears(t, progress) ==
    /\ IF t \in tasks
       THEN Store(t, [task_info[t] EXCEPT
                         !.progress = IF progress.papers_screened = NoneInt
                                      THEN NoProgress ELSE progress,
                         !.status = "running",
                         !.updated_at = now])
       ELSE UNCHANGED <<task_info, poll_held>>
    /\ UNCHANGED <<tasks, cancellation_tokens, token_cancelled>>
\* A faulty update_progress, which inserts the entry when the id is absent.
update_progress_upsert(t, progress) ==
    /\ Store(t, [task_info[t] EXCEPT !.progress = progress,
                                     !.status = "running",
                                     !.updated_at = now])
    /\ tasks' = tasks \cup {t}
    /\ UNCHANGED <<cancellation_tokens, token_cancelled>>
\* TaskManager.update_progress: nothing is written for an id not in tasks.
update_progress(t, progress) ==
    /\ IF t \in tasks
       THEN Store(t, [task_info[t] EXCEPT !.progress = progress,
                                          !.status = "running",
                                          !.updated_at = now])
       ELSE UNCHANGED <<task_info, poll_held>>
    /\ UNCHANGED <<tasks, cancellation_tokens, token_cancelled>>

\* A faulty set_result, which leaves a cancelled task as it is.
set_result_unless_cancelled(t, result) ==
    /\ IF t \in tasks /\ task_info[t].status # "cancelled"
       THEN Store(t, [task_info[t] EXCEPT !.result = result,
                                          !.status = "completed",
                                          !.updated_at = now])
       ELSE UNCHANGED <<task_info, poll_held>>
    /\ UNCHANGED <<tasks, cancellation_tokens, token_cancelled>>
\* TaskManager.set_result: the status is written whatever it was before.
set_result(t, result) ==
    /\ IF t \in tasks
       THEN Store(t, [task_info[t] EXCEPT !.result = result,
                                          !.status = "completed",
                                          !.updated_at = now])
       ELSE UNCHANGED <<task_info, poll_held>>
    /\ UNCHANGED <<tasks, cancellation_tokens, token_cancelled>>

set_error(t, error) ==
    /\ IF t \in tasks
       THEN Store(t, [task_info[t] EXCEPT !.error = error,
                                          !.status = "failed",
                                          !.updated_at = now])
       ELSE UNCHANGED <<task_info, poll_held>>
    /\ UNCHANGED <<tasks, cancellation_tokens, token_cancelled>>

\* A faulty cancel, which flips the flag instead of setting it.
cancel_toggle(t) == token_cancelled' = [token_cancelled EXCEPT ![t] = ~@]
\* CancellationToken.cancel and is_cancelled, each under the token's lock.
cancel(t) == token_cancelled' = [token_cancelled EXCEPT ![t] = TRUE]
is_cancelled(t) == token_cancelled[t]

\* A faulty cancel_task, which drops the token it has cancelled.
cancel_task_pops_token(t, ret) ==
    /\ ret = (t \in cancellation_tokens)
    /\ IF t \in cancellation_tokens
       THEN /\ cancel(t)
            /\ IF t \in tasks
               THEN Store(t, [task_info[t] EXCEPT !.status = "cancelled",
                                                  !.updated_at = now])
               ELSE UNCHANGED <<task_info, poll_held>>
       ELSE UNCHANGED <<token_cancelled, task_info, poll_held>>
    /\ cancellation_tokens' = cancellation_tokens \ {t}
    /\ UNCHANGED tasks
\* TaskManager.cancel_task; ret is the value it returns.
cancel_task(t, ret) ==
    /\ ret = (t \in cancellation_tokens)
    /\ IF t \in cancellation_tokens
       THEN /\ cancel(t)
            /\ IF t \in tasks
               THEN Store(t, [task_info[t] EXCEPT !.status = "cancelled",
                                                  !.updated_at = now])
               ELSE UNCHANGED <<task_info, poll_held>>
       ELSE UNCHANGED <<token_cancelled, task_info, poll_held>>
    /\ UNCHANGED <<tasks, cancellation_tokens>>

\* A faulty selection, which leaves out the test of the status.
tasks_to_remove_any_status(cutoff) ==
    {t \in tasks : task_info[t].updated_at < cutoff}
\* The ids one pass of _cleanup_old_tasks removes, given its cutoff.
tasks_to_remove(cutoff) ==
    {t \in tasks : /\ task_info[t].status \in {"completed", "cancelled", "failed"}
                   /\ task_info[t].updated_at < cutoff}


\* ------------------------------------------------------------- server.py

\* POST /agent/start: create_task, then the worker thread is started.  No
\* other thread knows the id before the handler returns it.
start_gene_search(n) ==
    /\ requests_left > 0
    /\ next_id \in TaskIds
    /\ create_task(next_id)
    /\ pc' = [pc EXCEPT ![next_id] = "get_task"]
    /\ top_n' = [top_n EXCEPT ![next_id] = n]
    /\ next_id' = next_id + 1
    /\ requests_left' = requests_left - 1
    /\ UNCHANGED <<late_calls, locks, now, cancellation_token, exc, papers, idx, results, top_results,
                   call_kwargs, reaper, poller, answer, poll_seen>>

\* POST /agent/cancel/{task_id}: 200 when cancel_task returns True, else 404.
cancel_task_handler(t) ==
    /\ \E ret \in BOOLEAN : cancel_task(t, ret)
    /\ UNCHANGED <<late_calls, locks, now, worker, client, reaper, poller>>

\* run_gene_search_task, line 118: task_info = task_manager.get_task(task_id).
WorkerGetTask(t) ==
    /\ pc[t] = "get_task"
    /\ pc' = [pc EXCEPT ![t] = IF get_task(t) # NoTaskInfo THEN "get_token" ELSE "done"]
    /\ UNCHANGED <<late_calls, locks, now, registry, cancellation_token, exc, top_n, papers, idx,
                   results, top_results, client, reaper, poller, poll_held, answer>>

\* line 123: cancellation_tokens.get(task_id), read without the lock.
WorkerGetToken(t) ==
    /\ pc[t] = "get_token"
    /\ cancellation_token' =
          [cancellation_token EXCEPT
              ![t] = IF t \in cancellation_tokens THEN "token" ELSE "None"]
    /\ pc' = [pc EXCEPT ![t] = "call"]
    /\ UNCHANGED <<late_calls, locks, now, registry, exc, top_n, papers, idx, results, top_results,
                   client, reaper, poller, poll_held, answer>>

\* line 128: the call binds its keywords to search_gene's parameters, or
\* raises TypeError before the body runs.
WorkerCall(t) ==
    /\ pc[t] = "call"
    /\ IF call_kwargs \subseteq search_gene_params
       THEN /\ pc' = [pc EXCEPT ![t] = "step1"]
            /\ exc' = exc
       ELSE /\ pc' = [pc EXCEPT ![t] = "except"]
            /\ exc' = [exc EXCEPT ![t] = TypeErrorMessage]
    /\ UNCHANGED <<late_calls, locks, now, registry, cancellation_token, top_n, papers, idx, results,
                   top_results, client, reaper, poller, poll_held, answer>>

\* The token read of a checkpoint: "if cancellation_token and
\* cancellation_token.is_cancelled()".
Cancelled(t) == cancellation_token[t] = "token" /\ is_cancelled(t)

\* A faulty exit check, which does not read the token.
WorkerExitCheck_ignores_token(t) ==
    /\ pc[t] = "returned"
    /\ pc' = [pc EXCEPT ![t] = "set_result"]
    /\ UNCHANGED <<late_calls, locks, now, registry, cancellation_token, exc, top_n, papers, idx,
                   results, top_results, client, reaper, poller, poll_held, answer>>
\* line 139: the exit check reads the token; the write is a later call.
WorkerExitCheck(t) ==
    /\ pc[t] = "returned"
    /\ pc' = [pc EXCEPT ![t] = IF Cancelled(t) THEN "update_status" ELSE "set_result"]
    /\ UNCHANGED <<late_calls, locks, now, registry, cancellation_token, exc, top_n, papers, idx,
                   results, top_results, client, reaper, poller, poll_held, answer>>

\* The thread function returns: its locals are released.
WorkerDone(t) ==
    /\ pc' = [pc EXCEPT ![t] = "done"]
    /\ cancellation_token' = [cancellation_token EXCEPT ![t] = "None"]
    /\ exc' = [exc EXCEPT ![t] = NoError]
    /\ top_results' = [top_results EXCEPT ![t] = << >>]
    /\ late_calls' = IF t \in DOMAIN late_calls
                     THEN [late_calls EXCEPT ![t] = 0] ELSE late_calls
    /\ UNCHANGED <<locks, now, top_n, papers, idx, results, client, reaper, poller, answer>>

\* line 140
WorkerUpdateStatus(t) ==
    /\ pc[t] = "update_status"
    /\ update_status(t, "cancelled")
    /\ WorkerDone(t)

\* A faulty worker, which returns from line 143 without the write.
WorkerSetResult_skips(t) ==
    /\ pc[t] = "set_result"
    /\ WorkerDone(t)
    /\ UNCHANGED <<registry, poll_held>>
\* lines 143-146
WorkerSetResult(t) ==
    /\ pc[t] = "set_result"
    /\ set_result(t, [results |-> top_results[t], count |-> Len(top_results[t])])
    /\ WorkerDone(t)

\* lines 148-150
WorkerExcept(t) ==
    /\ pc[t] = "except"
    /\ set_error(t, exc[t])
    /\ WorkerDone(t)

\* ------------------------------------------- the manager's methods, called

\* The ids a caller of the manager's methods names here: a pair of tasks,
\* A and B.  (What a call on one task does to another is a question about
\* pairs; the methods take one id and treat all other keys alike.)
RegistryIds == {MaxTasks, MaxTasks + 1}

\* Every method of the manager called with any id, in any order; each call
\* with an argument the program passes.  create_task's id is a fresh uuid.
CallCreateTask(t) ==
    /\ t \notin tasks
    /\ t \notin cancellation_tokens
    /\ create_task(t)
    /\ UNCHANGED <<late_calls, locks, now, worker, client, reaper, poller>>

\* server.py line 140
CallUpdateStatus(t) ==
    /\ update_status(t, "cancelled")
    /\ UNCHANGED <<late_calls, locks, now, worker, client, reaper, poller>>

\* gene_search.py line 97, through ProgressCallback.update
CallUpdateProgress(t) ==
    /\ update_progress(t, [current_step |-> "Building query", step_number |-> 1,
                           total_steps |-> 4, papers_screened |-> NoneInt,
                           total_papers |-> NoneInt,
                           message |-> "Building PubMed search query"])
    /\ UNCHANGED <<late_calls, locks, now, worker, client, reaper, poller>>

\* server.py lines 143-146
CallSetResult(t) ==
    /\ set_result(t, [results |-> << >>, count |-> 0])
    /\ UNCHANGED <<late_calls, locks, now, worker, client, reaper, poller>>

\* server.py line 150
CallSetError(t) ==
    /\ set_error(t, TypeErrorMessage)
    /\ UNCHANGED <<late_calls, locks, now, worker, client, reaper, poller>>

\* ------------------------------------------------- reaper thread and clock

Tick ==
    /\ now < MaxNow
    /\ now' = now + 1
    /\ UNCHANGED <<late_calls, locks, registry, worker, client, reaper, poller, poll_held>>

\* _cleanup_old_tasks, line 201: the cutoff is computed before the lock is taken.
ReaperWake ==
    /\ reaper_pc = "wait"
    /\ cutoff_time' = now - RetentionTicks
    /\ reaper_pc' = "sweep"
    /\ UNCHANGED <<late_calls, locks, now, registry, worker, client, poller, poll_held>>

\* A faulty sweep, which leaves the tokens of the removed tasks behind.
ReaperSweep_keeps_tokens ==
    /\ reaper_pc = "sweep"
    /\ tasks' = tasks \ tasks_to_remove(cutoff_time)
    /\ reaper_pc' = "wait"
    /\ cutoff_time' = 0
    /\ UNCHANGED <<late_calls, locks, now, cancellation_tokens, task_info, token_cancelled, worker,
                   client, poller, poll_held>>
\* lines 203-215, under the lock.
ReaperSweep ==
    /\ reaper_pc = "sweep"
    /\ tasks' = tasks \ tasks_to_remove(cutoff_time)
    /\ cancellation_tokens' = cancellation_tokens \ tasks_to_remove(cutoff_time)
    /\ reaper_pc' = "wait"
    /\ cutoff_time' = 0
    /\ UNCHANGED <<late_calls, locks, now, task_info, token_cancelled, worker, client, poller, poll_held>>


\* ------------------------------------- GeneLiteratureSearch.search_gene

\* ProgressCallback.update builds the snapshot; report_progress passes
\* total_steps=4.
ProgressInfo(step, step_number, papers_screened, total_papers, message) ==
    [current_step |-> step, step_number |-> step_number, total_steps |-> TotalSteps,
     papers_screened |-> papers_screened, total_papers |-> total_papers,
     message |-> message]

\* report_progress: progress_callback.update -> TaskManager.update_progress.
report_progress(t, step, step_number, papers_screened, total_papers, message) ==
    update_progress(t, ProgressInfo(step, step_number, papers_screened,
                                    total_papers, message))

Goto(t, label) == pc' = [pc EXCEPT ![t] = label]

\* A step that reports progress and goes on to label.
ReportStep(t, label) ==
    /\ Goto(t, label)
    /\ UNCHANGED <<late_calls, locks, now, cancellation_token, exc, top_n, papers, idx, results,
                   top_results, client, reaper, poller, answer>>

\* search_gene leaves (returning value, or raising): its locals are released.
Leave(t, label, value) ==
    /\ Goto(t, label)
    /\ papers' = [papers EXCEPT ![t] = 0]
    /\ idx' = [idx EXCEPT ![t] = 0]
    /\ results' = [results EXCEPT ![t] = << >>]
    /\ top_results' = [top_results EXCEPT ![t] = value]

\* A checkpoint: return [] when the token reads cancelled, else go on.
CheckStep(t, label) ==
    /\ IF Cancelled(t)
       THEN Leave(t, "returned", << >>)
       ELSE Goto(t, label) /\ UNCHANGED <<papers, idx, results, top_results>>
    /\ UNCHANGED <<late_calls, locks, now, registry, cancellation_token, exc, top_n, client, reaper,
                   poller, poll_held, answer>>

\* line 97 (build_search_query, lines 98-102, has no effect on the state)
Step1(t) ==
    /\ pc[t] = "step1"
    /\ report_progress(t, "Building query", 1, NoneInt, NoneInt, "Building PubMed search query")
    /\ ReportStep(t, "check1")

\* lines 106-107
Check1(t) == pc[t] = "check1" /\ CheckStep(t, "step2")

\* line 110
Step2(t) ==
    /\ pc[t] = "step2"
    /\ report_progress(t, "Searching PubMed", 2, NoneInt, NoneInt, "Searching PubMed")
    /\ ReportStep(t, "search")

\* The calls of lines 111, 125, 148 and 200 leave the pipeline for PubMed or
\* the model; the history counts those begun after the task's token was set
\* (0, 1, or 2 for two and more).
BeginCall(t) ==
    late_calls' = IF t \in DOMAIN late_calls /\ token_cancelled[t] /\ late_calls[t] < 2
                  THEN [late_calls EXCEPT ![t] = @ + 1]
                  ELSE late_calls

\* lines 111-114: PubMed.search (pubmed.py lines 116-136) returns the id
\* list, which the pipeline only tests for emptiness, or Entrez raises and
\* the thread is in the except clause of PubMed.search.
Search(t) ==
    /\ pc[t] = "search"
    /\ \/ \E pmids \in 0..MaxPapers :
            Goto(t, IF pmids = 0 THEN "no_papers" ELSE "check2")
       \/ Goto(t, "search_except")
    /\ BeginCall(t)
    /\ UNCHANGED <<locks, now, registry, cancellation_token, exc, top_n, papers, idx,
                   results, top_results, client, reaper, poller, poll_held, answer>>

\* pubmed.py lines 137-138: the handler returns a list of one string, the
\* error text; that list is not empty, so line 114 goes on.
SearchExcept(t) ==
    /\ pc[t] = "search_except"
    /\ Goto(t, "check2")
    /\ UNCHANGED <<late_calls, locks, now, registry, cancellation_token, exc, top_n, papers, idx,
                   answer, results, top_results, client, reaper, poller, poll_held>>

\* A faulty line 117, which goes on to the next checkpoint.
NoPapers_goes_on(t) ==
    /\ pc[t] = "no_papers"
    /\ report_progress(t, "Search complete", 4, NoneInt, NoneInt, "No papers found")
    /\ ReportStep(t, "check2")
\* lines 115-117
NoPapers(t) ==
    /\ pc[t] = "no_papers"
    /\ report_progress(t, "Search complete", 4, NoneInt, NoneInt, "No papers found")
    /\ ReportStep(t, "returned")

\* A faulty line 120, which goes on whatever the token reads.
Check2_no_checkpoint(t) ==
    /\ pc[t] = "check2"
    /\ Goto(t, "step3")
    /\ UNCHANGED <<late_calls, locks, now, registry, cancellation_token, exc, top_n, papers,
                   idx, results, top_results, client, reaper, poller, poll_held, answer>>
\* lines 120-121
Check2(t) == pc[t] = "check2" /\ CheckStep(t, "step3")

\* line 124
Step3(t) ==
    /\ pc[t] = "step3"
    /\ report_progress(t, "Fetching metadata", 3, NoneInt, NoneInt, "Fetching metadata")
    /\ ReportStep(t, "fetch")

\* line 125: PubMed.fetch returns the parsed records (possibly none, possibly
\* one error record).
Fetch(t) ==
    /\ pc[t] = "fetch"
    /\ \/ /\ \E n \in 0..MaxPapers : papers' = [papers EXCEPT ![t] = n]
          /\ Goto(t, "check3")
       \/ /\ Goto(t, "fetch_except")
          /\ UNCHANGED papers
    /\ BeginCall(t)
    /\ UNCHANGED <<locks, now, registry, cancellation_token, exc, top_n, idx, results,
                   top_results, client, reaper, poller, poll_held, answer>>

\* pubmed.py lines 197-198: the handler returns a list of one record,
\* {"error": text}, which the pipeline screens like a paper.  (That record
\* has no title, so screen_paper answers "not relevant" for it; the model
\* lets it have any answer, which only adds behaviours.)
FetchExcept(t) ==
    /\ pc[t] = "fetch_except"
    /\ papers' = [papers EXCEPT ![t] = 1]
    /\ Goto(t, "check3")
    /\ UNCHANGED <<late_calls, locks, now, registry, cancellation_token, exc, top_n, idx, answer,
                   results, top_results, client, reaper, poller, poll_held>>

\* lines 129-131
Check3(t) == pc[t] = "check3" /\ CheckStep(t, "step4")

\* lines 134-136
Step4(t) ==
    /\ pc[t] = "step4"
    /\ report_progress(t, "Screening papers", 4, 0, papers[t], "Starting paper screening with AI")
    /\ Goto(t, "screen_check")
    /\ idx' = [idx EXCEPT ![t] = 0]
    /\ results' = [results EXCEPT ![t] = << >>]
    /\ UNCHANGED <<late_calls, locks, now, cancellation_token, exc, top_n, papers, top_results,
                   client, reaper, poller, answer>>

\* lines 138-142: next paper of the loop, or the loop ends / breaks.
ScreenCheck(t) ==
    /\ pc[t] = "screen_check"
    /\ Goto(t, IF idx[t] = papers[t] \/ Cancelled(t) THEN "step5" ELSE "screen_report")
    /\ UNCHANGED <<late_calls, locks, now, registry, cancellation_token, exc, top_n, papers, idx,
                   results, top_results, client, reaper, poller, poll_held, answer>>

\* lines 145-146
ScreenReport(t) ==
    /\ pc[t] = "screen_report"
    /\ report_progress(t, "Screening papers", 4, idx[t] + 1, papers[t], "Screening paper")
    /\ ReportStep(t, "invoke")

\* The values the parsed JSON of the model's answer can hold for "score"
\* (null included) .
ScoreValues == (0..MaxScore) \cup {NullScore}

NoAnswer ==
    [kind |-> "None", score |-> NullScore, has_relevant |-> FALSE,
     relevant |-> FALSE]

\* Outcomes of the scoring call inside screen_paper (screening.py lines
\* 257-274): llm.invoke or json.loads raises, or the parsed object, which
\* has a "relevant" key or not.
LlmAnswers ==
    {[kind |-> "raise", score |-> NullScore, has_relevant |-> FALSE,
      relevant |-> FALSE]} \cup
    {[kind |-> "json", score |-> s, has_relevant |-> TRUE, relevant |-> r] :
        s \in ScoreValues, r \in BOOLEAN} \cup
    {[kind |-> "json", score |-> s, has_relevant |-> FALSE, relevant |-> FALSE] :
        s \in ScoreValues}

\* screening.py line 257, called from gene_search.py line 148.
ScreenInvoke(t) ==
    /\ pc[t] = "invoke"
    /\ \E a \in LlmAnswers : answer' = [answer EXCEPT ![t] = a]
    /\ Goto(t, "screen")
    /\ BeginCall(t)
    /\ UNCHANGED <<locks, now, registry, cancellation_token, exc, top_n, papers, idx,
                   results, top_results, client, reaper, poller, poll_held>>

\* A faulty screen_paper, whose handlers flag the paper relevant.
screen_paper_flags(a) ==
    IF a.kind = "raise"
    THEN [relevant |-> TRUE, score |-> 0]
    ELSE [relevant |-> a.has_relevant /\ a.relevant, score |-> a.score]
\* screen_paper, screening.py lines 250-299: both except clauses return
\* relevant False and score 0.0; otherwise the parsed object is returned,
\* with "relevant" set to False when the key is missing (lines 282-283).
screen_paper(a) ==
    IF a.kind = "raise"
    THEN [relevant |-> FALSE, score |-> 0]
    ELSE [relevant |-> a.has_relevant /\ a.relevant, score |-> a.score]

\* lines 148-169
Screen(t) ==
    /\ pc[t] = "screen"
    /\ results' = [results EXCEPT ![t] =
          Append(@, [pmid |-> idx[t] + 1,
                     score |-> screen_paper(answer[t]).score,
                     relevant |-> screen_paper(answer[t]).relevant,
                     extracted |-> FALSE])]
    /\ answer' = [answer EXCEPT ![t] = NoAnswer]
    /\ idx' = [idx EXCEPT ![t] = idx[t] + 1]
    /\ Goto(t, "screen_check")
    /\ UNCHANGED <<late_calls, locks, now, registry, cancellation_token, exc, top_n, papers,
                   top_results, client, reaper, poller, poll_held>>

\* line 172
Step5(t) ==
    /\ pc[t] = "step5"
    /\ report_progress(t, "Filtering results", 5, NoneInt, NoneInt, "Filtering and ranking papers")
    /\ ReportStep(t, "rank")

\* line 173
relevant_results(rs) == SelectSeq(rs, LAMBDA r : r.relevant)

\* A faulty insertion, which puts a record before the records of equal
\* score (as sorting ascending and reversing the list would).
RECURSIVE InsertDesc_ties_reversed(_, _)
InsertDesc_ties_reversed(sorted, r) ==
    IF sorted = << >> THEN <<r>>
    ELSE IF Head(sorted).score > r.score
         THEN <<Head(sorted)>> \o InsertDesc_ties_reversed(Tail(sorted), r)
         ELSE <<r>> \o sorted
\* sorted(key=score, reverse=True): stable, equal scores keep their order.
RECURSIVE InsertDesc(_, _)
InsertDesc(sorted, r) ==
    IF sorted = << >> THEN <<r>>
    ELSE IF Head(sorted).score >= r.score
         THEN <<Head(sorted)>> \o InsertDesc(Tail(sorted), r)
         ELSE <<r>> \o sorted

RECURSIVE results_sorted(_)
results_sorted(rs) ==
    IF rs = << >> THEN << >>
    ELSE InsertDesc(results_sorted(SubSeq(rs, 1, Len(rs) - 1)), rs[Len(rs)])

\* Comparing None with anything raises TypeError; sorted compares as soon
\* as there are two elements.
SortRaises(rs) == Len(rs) >= 2 /\ \E i \in 1..Len(rs) : rs[i].score = NullScore

\* A faulty slice, one record too long.
Slice_one_more(rs, n) == SubSeq(rs, 1, IF n + 1 < Len(rs) THEN n + 1 ELSE Len(rs))
\* line 175: results_sorted[:top_n]
Slice(rs, n) == SubSeq(rs, 1, IF n < Len(rs) THEN n ELSE Len(rs))

\* A faulty step, which keeps every relevant record.
Rank_unsliced(t) ==
    /\ pc[t] = "rank"
    /\ IF SortRaises(relevant_results(results[t]))
       THEN /\ exc' = [exc EXCEPT ![t] = "TypeError: '<' not supported"]
            /\ Leave(t, "except", << >>)
       ELSE /\ top_results' = [top_results EXCEPT ![t] =
                   results_sorted(relevant_results(results[t]))]
            /\ Goto(t, "check5")
            /\ UNCHANGED <<exc, papers, idx, results, answer>>
    /\ UNCHANGED <<late_calls, locks, now, registry, cancellation_token, top_n, client, reaper,
                   poller, poll_held, answer>>
\* lines 173-175
Rank(t) ==
    /\ pc[t] = "rank"
    /\ IF SortRaises(relevant_results(results[t]))
       THEN /\ exc' = [exc EXCEPT ![t] = "TypeError: '<' not supported"]
            /\ Leave(t, "except", << >>)
       ELSE /\ top_results' = [top_results EXCEPT ![t] =
                   Slice(results_sorted(relevant_results(results[t])), top_n[t])]
            /\ Goto(t, "check5")
            /\ UNCHANGED <<exc, papers, idx, results, answer>>
    /\ UNCHANGED <<late_calls, locks, now, registry, cancellation_token, top_n, client, reaper,
                   poller, poll_held, answer>>

\* lines 180-185: return top_results when cancelled; skip step 6 when empty.
Check5(t) ==
    /\ pc[t] = "check5"
    /\ IF Cancelled(t)
       THEN Leave(t, "returned", top_results[t])
       ELSE /\ Goto(t, IF top_results[t] # << >> THEN "step6" ELSE "final")
            /\ UNCHANGED <<papers, idx, results, top_results>>
    /\ UNCHANGED <<late_calls, locks, now, registry, cancellation_token, exc, top_n, client, reaper,
                   poller, poll_held, answer>>

\* lines 186-188
Step6(t) ==
    /\ pc[t] = "step6"
    /\ report_progress(t, "Extracting associations", 6, 0, Len(top_results[t]),
                       "Extracting modification effects and longevity associations")
    /\ Goto(t, "extract_check")
    /\ idx' = [idx EXCEPT ![t] = 0]
    /\ UNCHANGED <<late_calls, locks, now, cancellation_token, exc, top_n, papers, results, top_results,
                   client, reaper, poller, answer>>

\* A faulty loop head, without the checkpoint.
ExtractCheck_no_checkpoint(t) ==
    /\ pc[t] = "extract_check"
    /\ Goto(t, IF idx[t] = Len(top_results[t]) THEN "final" ELSE "extract_report")
    /\ UNCHANGED <<late_calls, locks, now, registry, cancellation_token, exc, top_n, papers, idx,
                   results, top_results, client, reaper, poller, poll_held, answer>>
\* lines 190-193
ExtractCheck(t) ==
    /\ pc[t] = "extract_check"
    /\ Goto(t, IF idx[t] = Len(top_results[t]) \/ Cancelled(t)
               THEN "final" ELSE "extract_report")
    /\ UNCHANGED <<late_calls, locks, now, registry, cancellation_token, exc, top_n, papers, idx,
                   results, top_results, client, reaper, poller, poll_held, answer>>

\* lines 196-197
ExtractReport(t) ==
    /\ pc[t] = "extract_report"
    /\ report_progress(t, "Extracting associations", 6, idx[t] + 1, Len(top_results[t]),
                       "Extracting associations for paper")
    /\ ReportStep(t, "extract")

\* A faulty loop body, which does not move on to the next paper.
Extract_same_paper(t) ==
    /\ pc[t] = "extract"
    /\ BeginCall(t)
    /\ top_results' = [top_results EXCEPT ![t][idx[t] + 1].extracted = TRUE]
    /\ Goto(t, "extract_check")
    /\ UNCHANGED <<locks, now, registry, cancellation_token, exc, top_n, papers, idx,
                   results, client, reaper, poller, poll_held, answer>>
\* lines 200-212: screen_association never raises; the record gets its two
\* extracted fields.
Extract(t) ==
    /\ pc[t] = "extract"
    /\ top_results' = [top_results EXCEPT ![t][idx[t] + 1].extracted = TRUE]
    /\ idx' = [idx EXCEPT ![t] = idx[t] + 1]
    /\ Goto(t, "extract_check")
    /\ BeginCall(t)
    /\ UNCHANGED <<locks, now, registry, cancellation_token, exc, top_n, papers, results,
                   client, reaper, poller, poll_held, answer>>

\* line 217: was_cancelled is read from the token, then reported (line 219).
Final(t) ==
    /\ pc[t] = "final"
    /\ Goto(t, IF Cancelled(t) THEN "final_cancelled" ELSE "final_completed")
    /\ UNCHANGED <<late_calls, locks, now, registry, cancellation_token, exc, top_n, papers, idx,
                   results, top_results, client, reaper, poller, poll_held, answer>>

\* A faulty line 219, which reports the last step as step total_steps.
FinalReport_total_steps(t) ==
    /\ pc[t] \in {"final_cancelled", "final_completed"}
    /\ report_progress(t, IF pc[t] = "final_cancelled" THEN "Search cancelled"
                          ELSE "Search completed",
                       TotalSteps, NoneInt, NoneInt, "Found top papers with associations")
    /\ Leave(t, "returned", top_results[t])
    /\ UNCHANGED <<late_calls, locks, now, cancellation_token, exc, top_n, client, reaper,
                   poller, answer>>
\* lines 218-220, 234
FinalReport(t) ==
    /\ pc[t] \in {"final_cancelled", "final_completed"}
    /\ report_progress(t, IF pc[t] = "final_cancelled" THEN "Search cancelled"
                          ELSE "Search completed",
                       7, NoneInt, NoneInt, "Found top papers with associations")
    /\ Leave(t, "returned", top_results[t])
    /\ UNCHANGED <<late_calls, locks, now, cancellation_token, exc, top_n, client, reaper, poller, answer>>


\* ------------------------------------- GET /agent/status/{task_id}

EmptyView ==
    [status |-> "None", progress |-> NoProgress, result |-> NoResult,
     error |-> NoError]

\* line 227: get_task returns the dictionary's TaskInfo object itself
\* (task_manager.py line 146), or None -> 404.
PollGetTask(t) ==
    /\ poll_pc = "idle"
    /\ IF get_task(t) # NoTaskInfo
       THEN /\ poll_pc' = "status"
            /\ poll_ref' = t
            /\ poll_held' = {Fields(task_info[t])}
       ELSE /\ poll_pc' = "not_found"
            /\ poll_ref' = t
            /\ poll_held' = {}
    /\ poll_view' = EmptyView
    /\ UNCHANGED <<late_calls, locks, now, registry, worker, client, reaper>>

PollStep(label, view) ==
    /\ poll_pc' = label
    /\ poll_view' = view
    /\ UNCHANGED <<late_calls, locks, now, registry, worker, client, reaper, poll_ref, poll_held>>

\* line 235
PollReadStatus ==
    /\ poll_pc = "status"
    /\ PollStep("progress_if", [poll_view EXCEPT !.status = task_info[poll_ref].status])

\* line 236: "... if task_info.progress else None" reads the attribute,
\* then the value is read again.
PollTestProgress ==
    /\ poll_pc = "progress_if"
    /\ PollStep(IF task_info[poll_ref].progress = NoProgress
                THEN "result_if" ELSE "progress_val", poll_view)

PollReadProgress ==
    /\ poll_pc = "progress_val"
    /\ PollStep("result_if", [poll_view EXCEPT !.progress = task_info[poll_ref].progress])

\* line 237
PollTestResult ==
    /\ poll_pc = "result_if"
    /\ PollStep(IF task_info[poll_ref].result = NoResult
                THEN "error" ELSE "result_val", poll_view)

\* SearchResponse(**result) validates every record as a PaperResult, whose
\* required field gene_symbol (line 54) the pipeline's records do not have
\* (gene_search.py lines 155-168 write "symbol"): ValidationError -> 500.
PollReadResult ==
    /\ poll_pc = "result_val"
    /\ IF task_info[poll_ref].result.results # << >>
       THEN PollStep("failed_500", poll_view)
       ELSE PollStep("error", [poll_view EXCEPT !.result = task_info[poll_ref].result])

\* line 238
PollReadError ==
    /\ poll_pc = "error"
    /\ PollStep("respond", [poll_view EXCEPT !.error = task_info[poll_ref].error])

\* line 241 (or the 404 / 500 answer): the handler ends, and the client has
\* the progress of a 200 answer.
PollReturn ==
    /\ poll_pc \in {"respond", "not_found", "failed_500"}
    /\ poll_pc' = "idle"
    /\ poll_ref' = 0
    /\ poll_view' = EmptyView
    /\ poll_held' = {}
    /\ poll_seen' = IF poll_pc = "respond"
                    THEN [poll_seen EXCEPT ![poll_ref] = poll_view.progress]
                    ELSE poll_seen
    /\ UNCHANGED <<late_calls, locks, now, registry, worker, next_id, requests_left, call_kwargs,
                   reaper>>

\* ------------------------------------------------- locks and threads

\* The threads: one worker per task, the request handlers of the clients
\* (start and cancel), the status handler, and the cleanup thread.
NoThread == <<"None", 0>>
Threads ==
    {<<"worker", t>> : t \in TaskIds} \cup
    {<<"client", 0>>, <<"poller", 0>>, <<"reaper", 0>>}

\* The calls each thread makes.  Those of the first set run "with
\* self._lock:" (task_manager.py lines 134, 145, 150, 157, 165, 173, 186,
\* 203); is_cancelled takes the token's lock alone (line 78); the
\* collaborator calls (pubmed.search, pubmed.fetch, screen_paper,
\* screen_association) are made from search_gene.
ManagerCalls(th) ==
    IF th[1] = "worker"
    THEN {"get_task", "update_progress", "update_status", "set_result", "set_error"}
    ELSE IF th[1] = "client" THEN {"create_task", "cancel_task"}
    ELSE IF th[1] = "poller" THEN {"get_task"}
    ELSE {"_cleanup_old_tasks"}
Calls(th) ==
    ManagerCalls(th) \cup
    (IF th[1] = "worker" THEN {"is_cancelled", "collaborator"} ELSE {})

Idle == [call |-> "None", at |-> "idle", token |-> 0]

\* A faulty entry, by which a worker also makes a collaborator call from
\* inside update_progress's critical section.
Enter_under_lock(th, call) ==
    /\ call \in Calls(th)
    /\ \/ frame[th] = Idle
       \/ /\ call = "collaborator"
          /\ frame[th].call = "update_progress"
          /\ frame[th].at = "locked"
    /\ frame' = [frame EXCEPT ![th] =
          [call |-> call,
           at |-> IF call = "collaborator" THEN "in_call"
                  ELSE IF call = "is_cancelled" THEN "token_wait"
                  ELSE "wait",
           token |-> IF call = "is_cancelled" THEN th[2] ELSE 0]]
    /\ UNCHANGED <<data, manager_lock, token_lock>>
\* A thread enters a call.  A manager call first waits for the manager's
\* lock, is_cancelled for the lock of the worker's own token; a collaborator
\* call is in flight at once.
Enter(th, call) ==
    /\ frame[th] = Idle
    /\ call \in Calls(th)
    /\ frame' = [frame EXCEPT ![th] =
          [call |-> call,
           at |-> IF call = "collaborator" THEN "in_call"
                  ELSE IF call = "is_cancelled" THEN "token_wait"
                  ELSE "wait",
           token |-> IF call = "is_cancelled" THEN th[2] ELSE 0]]
    /\ UNCHANGED <<data, manager_lock, token_lock>>

\* "with self._lock:" of a TaskManager method is entered.
AcquireLock(th) ==
    /\ frame[th].at = "wait"
    /\ manager_lock = NoThread
    /\ manager_lock' = th
    /\ frame' = [frame EXCEPT ![th].at = "locked"]
    /\ UNCHANGED <<data, token_lock>>

\* cancel_task, lines 187-188: with the id among the tokens, token.cancel()
\* is called inside the manager's critical section.
CallCancel(th, t) ==
    /\ frame[th].at = "locked"
    /\ frame[th].call = "cancel_task"
    /\ frame' = [frame EXCEPT ![th].at = "token_wait", ![th].token = t]
    /\ UNCHANGED <<data, manager_lock, token_lock>>

\* "with self._lock:" of a CancellationToken method is entered.
AcquireTokenLock(th) ==
    /\ frame[th].at = "token_wait"
    /\ token_lock[frame[th].token] = NoThread
    /\ token_lock' = [token_lock EXCEPT ![frame[th].token] = th]
    /\ frame' = [frame EXCEPT ![th].at = "token_locked"]
    /\ UNCHANGED <<data, manager_lock>>

\* A faulty token method, which calls into the manager before it leaves its
\* critical section.
ReleaseTokenLock_calls_manager(th) ==
    /\ frame[th].at = "token_locked"
    /\ IF frame[th].call = "cancel_task"
       THEN /\ token_lock' = [token_lock EXCEPT ![frame[th].token] = NoThread]
            /\ frame' = [frame EXCEPT ![th].at = "unlocking", ![th].token = 0]
       ELSE /\ token_lock' = token_lock
            /\ frame' = [frame EXCEPT ![th].at = "wait"]
    /\ UNCHANGED <<data, manager_lock>>
\* The token method's critical section ends (lines 74, 79): is_cancelled
\* returns to the worker, cancel returns into cancel_task (lines 189-192).
ReleaseTokenLock(th) ==
    /\ frame[th].at = "token_locked"
    /\ token_lock' = [token_lock EXCEPT ![frame[th].token] = NoThread]
    /\ frame' = [frame EXCEPT ![th] =
          IF frame[th].call = "cancel_task"
          THEN [frame[th] EXCEPT !.at = "unlocking", !.token = 0]
          ELSE Idle]
    /\ UNCHANGED <<data, manager_lock>>

\* The manager method's critical section ends and the method returns.  The
\* sections hold dictionary and attribute operations only; cancel_task may
\* get here without a token call (id not among the tokens, line 193).
ReleaseLock(th) ==
    /\ frame[th].at \in {"locked", "unlocking"}
    /\ manager_lock = th
    /\ manager_lock' = NoThread
    /\ frame' = [frame EXCEPT ![th] = Idle]
    /\ UNCHANGED <<data, token_lock>>

\* The collaborator call returns or raises.
CollaboratorReturn(th) ==
    /\ frame[th].at = "in_call"
    /\ frame' = [frame EXCEPT ![th] = Idle]
    /\ UNCHANGED <<data, manager_lock, token_lock>>

\* ---------------------------------------------------------- specifications

\* The state after construction, for the task ids in ids: no task, no
\* thread started.
InitData(ids, kwargs, requests) ==
    /\ now = 0
    /\ tasks = {}
    /\ cancellation_tokens = {}
    /\ task_info = [t \in ids |-> NoTaskInfo]
    /\ token_cancelled = [t \in ids |-> FALSE]
    /\ next_id = 1
    /\ requests_left = requests
    /\ call_kwargs = kwargs
    /\ pc = [t \in TaskIds |-> "idle"]
    /\ cancellation_token = [t \in TaskIds |-> "None"]
    /\ exc = [t \in TaskIds |-> NoError]
    /\ top_n = [t \in TaskIds |-> 0]
    /\ papers = [t \in TaskIds |-> 0]
    /\ idx = [t \in TaskIds |-> 0]
    /\ answer = [t \in TaskIds |-> NoAnswer]
    /\ results = [t \in TaskIds |-> << >>]
    /\ top_results = [t \in TaskIds |-> << >>]
    /\ reaper_pc = "wait"
    /\ cutoff_time = 0
    /\ poll_pc = "idle"
    /\ poll_ref = 0
    /\ poll_view = EmptyView
    /\ poll_held = {}
    /\ poll_seen = [t \in TaskIds |-> NoProgress]
    /\ manager_lock = NoThread
    /\ token_lock = [t \in TaskIds |-> NoThread]
    /\ frame = [th \in Threads |-> Idle]

\* The history of late calls is kept for no task, except in InitCalls.
InitOver(ids, kwargs, requests) ==
    /\ InitData(ids, kwargs, requests)
    /\ late_calls = << >>

InitState(kwargs, requests) == InitOver(TaskIds, kwargs, requests)

\* The server as it is: the runner passes the keywords of server.py.
Init == InitState(RunnerKeywords, MaxTasks)

\* The runner's call made with the keywords search_gene accepts.
InitPipeline == InitState(RunnerKeywords \ {"gene_id"}, 1)

\* The same, with the history of late calls kept for every task.
InitCalls ==
    /\ InitData(TaskIds, RunnerKeywords \ {"gene_id"}, 1)
    /\ late_calls = [t \in TaskIds |-> 0]

ServerNext ==
    \/ \E n \in 1..MaxTopN : start_gene_search(n)
    \/ \E t \in TaskIds : cancel_task_handler(t)
    \/ \E t \in TaskIds : WorkerGetTask(t)
    \/ \E t \in TaskIds : WorkerGetToken(t)
    \/ \E t \in TaskIds : WorkerCall(t)
    \/ \E t \in TaskIds : WorkerExcept(t)

ReaperNext ==
    \/ Tick
    \/ ReaperWake
    \/ ReaperSweep

RunnerNext ==
    \/ \E t \in TaskIds : WorkerExitCheck(t)
    \/ \E t \in TaskIds : WorkerUpdateStatus(t)
    \/ \E t \in TaskIds : WorkerSetResult(t)

PipelineNext ==
    \/ \E t \in TaskIds : Step1(t)
    \/ \E t \in TaskIds : Check1(t)
    \/ \E t \in TaskIds : Step2(t)
    \/ \E t \in TaskIds : Search(t)
    \/ \E t \in TaskIds : SearchExcept(t)
    \/ \E t \in TaskIds : NoPapers(t)
    \/ \E t \in TaskIds : Check2(t)
    \/ \E t \in TaskIds : Step3(t)
    \/ \E t \in TaskIds : Fetch(t)
    \/ \E t \in TaskIds : FetchExcept(t)
    \/ \E t \in TaskIds : Check3(t)
    \/ \E t \in TaskIds : Step4(t)
    \/ \E t \in TaskIds : ScreenCheck(t)
    \/ \E t \in TaskIds : ScreenReport(t)
    \/ \E t \in TaskIds : ScreenInvoke(t)
    \/ \E t \in TaskIds : Screen(t)
    \/ \E t \in TaskIds : Step5(t)
    \/ \E t \in TaskIds : Rank(t)
    \/ \E t \in TaskIds : Check5(t)
    \/ \E t \in TaskIds : Step6(t)
    \/ \E t \in TaskIds : ExtractCheck(t)
    \/ \E t \in TaskIds : ExtractReport(t)
    \/ \E t \in TaskIds : Extract(t)
    \/ \E t \in TaskIds : Final(t)
    \/ \E t \in TaskIds : FinalReport(t)

PollNext ==
    \/ \E t \in TaskIds : PollGetTask(t)
    \/ PollReadStatus
    \/ PollTestProgress
    \/ PollReadProgress
    \/ PollTestResult
    \/ PollReadResult
    \/ PollReadError
    \/ PollReturn

\* The server as it is deployed: every worker's call raises TypeError, so the
\* pipeline and the runner's lines 138-146 are never reached.
Next == ServerNext \/ ReaperNext
Spec == Init /\ [][Next]_vars

\* A started worker thread is scheduled until run_gene_search_task returns.
WorkerFair ==
    \A t \in TaskIds :
       WF_vars(WorkerGetTask(t) \/ WorkerGetToken(t) \/ WorkerCall(t) \/ WorkerExcept(t))
\* The reaper thread loops for ever (task_manager.py lines 197-218).
ReaperFair == WF_vars(ReaperWake) /\ WF_vars(ReaperSweep)
SpecFair == Spec /\ WorkerFair /\ ReaperFair
\* Time passes (up to the horizon of the model's clock).
ClockFair == WF_vars(Tick)
SpecEvict == SpecFair /\ ClockFair

\* One task whose runner's call binds: the pipeline runs while clients
\* cancel.  Workers share nothing but the registry, whose methods touch only
\* the entry of the id they are given.
NextPipeline == ServerNext \/ RunnerNext \/ PipelineNext
SpecPipeline == InitPipeline /\ [][NextPipeline]_vars

SpecCalls == InitCalls /\ [][NextPipeline]_vars

\* The statements of one worker thread from the call of search_gene on.
RunStep(t) ==
    \/ WorkerExitCheck(t) \/ WorkerUpdateStatus(t) \/ WorkerSetResult(t)
    \/ Step1(t) \/ Check1(t) \/ Step2(t) \/ Search(t) \/ SearchExcept(t)
    \/ NoPapers(t) \/ Check2(t) \/ Step3(t) \/ Fetch(t) \/ FetchExcept(t)
    \/ Check3(t) \/ Step4(t) \/ ScreenCheck(t) \/ ScreenReport(t)
    \/ ScreenInvoke(t) \/ Screen(t) \/ Step5(t) \/ Rank(t) \/ Check5(t)
    \/ Step6(t) \/ ExtractCheck(t) \/ ExtractReport(t) \/ Extract(t)
    \/ Final(t) \/ FinalReport(t)
\* A worker thread inside search_gene is scheduled, and every collaborator
\* call it makes returns or raises.
PipelineFair == \A t \in TaskIds : WF_vars(RunStep(t))
SpecTerminate == SpecPipeline /\ WorkerFair /\ PipelineFair

\* The same with the clock and the reaper thread.
NextReaper == NextPipeline \/ ReaperNext
SpecReaper == InitPipeline /\ [][NextReaper]_vars

\* The same (no clock) with one status handler polling.
NextPoll == NextPipeline \/ PollNext
SpecPoll == InitPipeline /\ [][NextPoll]_vars

\* The manager's methods called in any order for any of the ids, as the
\* clock advances.
InitRegistry == InitOver(RegistryIds, RunnerKeywords, 0)
NextRegistry ==
    \/ \E t \in RegistryIds : CallCreateTask(t)
    \/ \E t \in RegistryIds : CallUpdateStatus(t)
    \/ \E t \in RegistryIds : CallUpdateProgress(t)
    \/ \E t \in RegistryIds : CallSetResult(t)
    \/ \E t \in RegistryIds : CallSetError(t)
    \/ \E t \in RegistryIds : cancel_task_handler(t)
    \/ Tick
SpecRegistry == InitRegistry /\ [][NextRegistry]_vars

\* The threads at the level of their lock operations: every thread makes
\* its calls in any order, which covers the order the code makes them in.
NextLocks ==
    \/ \E th \in Threads : \E call \in Calls(th) : Enter(th, call)
    \/ \E th \in Threads : AcquireLock(th)
    \/ \E th \in Threads : \E t \in TaskIds : CallCancel(th, t)
    \/ \E th \in Threads : AcquireTokenLock(th)
    \/ \E th \in Threads : ReleaseTokenLock(th)
    \/ \E th \in Threads : ReleaseLock(th)
    \/ \E th \in Threads : CollaboratorReturn(th)
SpecLocks == Init /\ [][NextLocks]_vars

\* ------------------------------------------------------------------ claims

\* The moves along pending -> running -> {completed | cancelled | failed}.
LegalMove(from, to) ==
    \/ to = from
    \/ from = "pending" /\ to \in {"running"} \cup Terminal
    \/ from = "running" /\ to \in Terminal

\* C1: a task's status only moves along pending -> running -> {completed |
\* cancelled | failed}; a terminal status is never followed by pending or
\* running.
C1_StatusLegalPath ==
    [][\A t \in tasks \cap tasks' :
          LegalMove(task_info[t].status, task_info'[t].status)]_vars

\* The steps of a worker that call ProgressCallback.update.
ReportLabels ==
    {"step1", "step2", "no_papers", "step3", "step4", "screen_report", "step5",
     "step6", "extract_report", "final_cancelled", "final_completed"}
\* The step is worker t's call of ProgressCallback.update.
IsUpdate(t) == pc[t] \in ReportLabels /\ pc'[t] # pc[t]

\* The step_number each of those calls passes.
StepNumberAt(label) ==
    CASE label = "step1" -> 1
      [] label = "step2" -> 2
      [] label = "step3" -> 3
      [] label \in {"no_papers", "step4", "screen_report"} -> 4
      [] label = "step5" -> 5
      [] label \in {"step6", "extract_report"} -> 6
      [] label \in {"final_cancelled", "final_completed"} -> 7

\* C2: update on an existing task replaces the progress snapshot and sets the
\* status to running only if the status is not terminal; a terminal status is
\* left unchanged.
C2_UpdateKeepsTerminal ==
    [][\A t \in tasks :
          IsUpdate(t) =>
             /\ task_info'[t].progress.step_number = StepNumberAt(pc[t])
             /\ task_info'[t].status =
                   IF task_info[t].status \in Terminal
                   THEN task_info[t].status ELSE "running"]_vars

\* C3: cancel_task on a task whose status is already terminal returns the
\* "found" acknowledgement and leaves the task's status, result, error and
\* updated_at as they were.
C3_CancelTerminalNoEffect ==
    [][\A t \in tasks :
          (task_info[t].status \in Terminal /\ cancel_task_handler(t)) =>
             /\ cancel_task(t, TRUE)
             /\ task_info'[t] = task_info[t]]_vars

\* C4: a task's result is non-null if and only if its status is completed.
C4_ResultIffCompleted ==
    \A t \in tasks :
       (task_info[t].result # NoResult) <=> (task_info[t].status = "completed")

\* C5: a task's error is non-null if and only if its status is failed.
C5_ErrorIffFailed ==
    \A t \in tasks :
       (task_info[t].error # NoError) <=> (task_info[t].status = "failed")

\* C6: once a task's status is terminal its updated_at never changes again,
\* as long as the reaper has not deleted it.
C6_TerminalUpdatedAtFrozen ==
    [][\A t \in tasks \cap tasks' :
          task_info[t].status \in Terminal =>
             task_info'[t].updated_at = task_info[t].updated_at]_vars

\* C7: a cancellation token's flag only changes false -> true: once a
\* cancel() has completed, every later is_cancelled() on that token returns
\* true, and no operation resets the flag.
C7_TokenMonotonic ==
    [][\A t \in TaskIds : is_cancelled(t) => token_cancelled'[t]]_vars

\* The worker's exit check (server.py line 139) has read a cancelled token:
\* only then does it go on to update_status.
C7_Witness ==
    \E t \in TaskIds : pc[t] = "update_status" /\ is_cancelled(t)

\* C8: whatever the reaper removes is terminal and at least one retention
\* window old; a pending or running task, or one updated less than an hour
\* ago, is never removed.
C8_ReaperSpares ==
    [][\A t \in tasks \ tasks' :
          /\ task_info[t].status \in Terminal
          /\ now - task_info[t].updated_at >= RetentionTicks]_vars

\* A sweep is under way while a pending or running task is older than the
\* cutoff the sweep uses.
C8_Witness ==
    /\ reaper_pc = "sweep"
    /\ \E t \in tasks : /\ task_info[t].status \in {"pending", "running"}
                        /\ task_info[t].updated_at < cutoff_time

\* C9: the fields a poll answers with are a combination the task held at
\* one instant between the handler's get_task and its response.
C9_PollPointInTime ==
    poll_pc = "respond" => poll_view \in poll_held

\* rs is in descending order of score.
SortedDesc(rs) ==
    \A i \in 1..(Len(rs) - 1) : rs[i].score >= rs[i + 1].score

\* C10: the result of every completed task has at most top_n records, in
\* descending order of score, every one of them flagged relevant.
C10_CompletedResultRanked ==
    \A t \in tasks :
       task_info[t].status = "completed" =>
          /\ Len(task_info[t].result.results) <= top_n[t]
          /\ SortedDesc(task_info[t].result.results)
          /\ \A i \in 1..Len(task_info[t].result.results) :
                task_info[t].result.results[i].relevant

\* A completed task whose two records were reordered by the sort (papers are
\* fetched in order of pmid).
C10_Witness ==
    \E t \in tasks :
       /\ task_info[t].status = "completed"
       /\ Len(task_info[t].result.results) = 2
       /\ task_info[t].result.results[1].pmid > task_info[t].result.results[2].pmid

\* C11: when the scoring call raises for a paper, the record appended for
\* it has score 0 and relevant false, the loop goes on to its next check
\* instead of raising to the runner, and a loop that ends without the token
\* reading cancelled has one record per fetched paper.
C11_ScreenFailureIsolated ==
    [][\A t \in TaskIds :
          /\ (pc[t] = "screen" /\ pc'[t] # pc[t] /\ answer[t].kind = "raise") =>
                /\ pc'[t] = "screen_check"
                /\ Len(results'[t]) = Len(results[t]) + 1
                /\ results'[t][Len(results'[t])].score = 0
                /\ ~results'[t][Len(results'[t])].relevant
          /\ (pc[t] \in {"invoke", "screen"} /\ pc'[t] # pc[t]) =>
                pc'[t] \in {"screen", "screen_check"}
          /\ (pc[t] = "screen_check" /\ pc'[t] = "step5" /\ ~Cancelled(t)) =>
                Len(results[t]) = papers[t]]_vars

\* The scoring call has raised for the last of several fetched papers.
C11_Witness ==
    \E t \in TaskIds :
       /\ pc[t] = "screen"
       /\ answer[t].kind = "raise"
       /\ papers[t] = MaxPapers
       /\ idx[t] = papers[t] - 1

\* C12: a failure of the Search or FetchMetadata collaborator call leaves
\* the pipeline as an exception that the runner's except clause receives,
\* which then records status failed with the exception's message.
C12_CollaboratorFailurePropagates ==
    [][\A t \in TaskIds :
          (pc[t] \in {"search_except", "fetch_except"} /\ pc'[t] # pc[t]) =>
             /\ pc'[t] = "except"
             /\ exc'[t] # NoError]_vars

\* C13: a started task that is never cancelled (none of its collaborator
\* calls raising) eventually has status completed with a non-null result
\* and a null error.
C13_StartedTaskCompletes ==
    \A t \in TaskIds :
       [](pc[t] = "get_task" =>
             <>(\/ token_cancelled[t]
                \/ /\ task_info[t].status = "completed"
                   /\ task_info[t].result # NoResult
                   /\ task_info[t].error = NoError))

\* C14: when the pipeline, cancelled part-way through, hands the runner the
\* relevant records it had gathered, the task ends with status cancelled
\* and with those records as its result, which is what a poll then shows.
C14_CancelledKeepsPartial ==
    [][\A t \in tasks :
          (pc[t] = "update_status" /\ pc'[t] = "done" /\ top_results[t] # << >>) =>
             /\ task_info'[t].status = "cancelled"
             /\ task_info'[t].result.results = top_results[t]]_vars

\* C15: on an empty identifier list the pipeline reports "No papers found"
\* and returns [] at once, so that no fetch, scoring or extraction step
\* follows; that snapshot stays the last one, and the runner of a task that
\* was not cancelled stores the empty list: completed, count 0.
C15_EmptySearchCompletes ==
    [][\A t \in tasks :
          /\ (pc[t] = "no_papers" /\ pc'[t] # pc[t]) =>
                /\ pc'[t] = "returned"
                /\ top_results'[t] = << >>
                /\ task_info'[t].progress.message = "No papers found"
          /\ (task_info[t].progress.message = "No papers found" /\ pc'[t] # pc[t]) =>
                /\ pc'[t] \in {"update_status", "set_result", "done"}
                /\ task_info'[t].progress = task_info[t].progress
          /\ (task_info[t].progress.message = "No papers found"
                /\ pc[t] = "set_result" /\ pc'[t] # pc[t]) =>
                /\ task_info'[t].status = "completed"
                /\ task_info'[t].result = [results |-> << >>, count |-> 0]]_vars

\* The worker of such a task has returned and the task is completed with
\* the empty list.
C15_Witness ==
    \E t \in tasks :
       /\ pc[t] = "done"
       /\ task_info[t].progress.message = "No papers found"
       /\ task_info[t].status = "completed"
       /\ task_info[t].result = [results |-> << >>, count |-> 0]

\* C16: for an id that is not in the registry (never created, or removed
\* by the reaper) get_task returns None, which is no status value, and
\* cancel_task returns False and leaves both dictionaries as they were.
C16_UnknownIdNotFound ==
    [][\A t \in TaskIds \ tasks :
          /\ get_task(t) = NoTaskInfo
          /\ get_task(t).status \notin Statuses
          /\ ~ENABLED cancel_task(t, TRUE)
          /\ cancel_task_handler(t) =>
                /\ cancel_task(t, FALSE)
                /\ UNCHANGED <<tasks, cancellation_tokens>>]_vars

\* The reaper has removed an id whose worker has since returned.
C16_Witness ==
    \E t \in TaskIds \ tasks :
       /\ t < next_id
       /\ pc[t] = "done"
       /\ task_info[t].status \in Terminal

\* C17: the step of start_search that hands out an id has put the entry
\* (status pending; progress, result and error null) and its token into the
\* registry before the worker's first step; afterwards only a sweep of the
\* reaper takes an entry out, so get_task on a started id finds the task
\* until the reaper has removed it.
C17_StartRegistersTask ==
    [][\A t \in TaskIds :
          /\ (pc[t] = "idle" /\ pc'[t] # "idle") =>
                /\ pc'[t] = "get_task"
                /\ t \in tasks' /\ t \in cancellation_tokens'
                /\ Fields(task_info'[t]) =
                      [status |-> "pending", progress |-> NoProgress,
                       result |-> NoResult, error |-> NoError]
          /\ (t \in tasks /\ t \notin tasks') =>
                (reaper_pc = "sweep" /\ reaper_pc' = "wait")
          /\ (t \in tasks) => get_task(t) # NoTaskInfo]_vars

\* A started task whose worker thread has not taken its first step.
C17_Witness ==
    \E t \in tasks :
       /\ pc[t] = "get_task"
       /\ task_info[t].status = "pending"
       /\ t \in cancellation_tokens

\* C18: a cancel_task on an id whose token an earlier cancel_task has
\* already cancelled returns True again and alters neither the token nor
\* the task's status or updated_at, whatever the worker did in between.
C18_SecondCancelNoOp ==
    [][\A t \in tasks :
          (token_cancelled[t] /\ cancel_task_handler(t)) =>
             /\ cancel_task(t, TRUE)
             /\ token_cancelled'[t]
             /\ task_info'[t].status = task_info[t].status
             /\ task_info'[t].updated_at = task_info[t].updated_at]_vars

\* The first step of each pipeline state: BuildQuery, Search, FetchMetadata,
\* Screen, RankAndSelect, ExtractFindings, Done.
EntryLabels == {"step1", "step2", "step3", "step4", "step5", "step6", "final"}

\* C19: every pipeline state is entered through a cancellation checkpoint:
\* the step that enters it has read the token, and when the token reads
\* cancelled the state is not entered (none of its work, none of its
\* progress updates).
C19_StatesGatedByCheckpoint ==
    [][\A t \in TaskIds :
          (pc'[t] \in EntryLabels /\ pc'[t] # pc[t]) => ~Cancelled(t)]_vars

\* The records rs as they were before extraction.
Unextracted(rs) == [i \in 1..Len(rs) |-> [rs[i] EXCEPT !.extracted = FALSE]]

ExtractLabels ==
    {"check5", "step6", "extract_check", "extract_report", "extract", "final",
     "final_cancelled", "final_completed"}

\* C20: the list the extraction loop walks is the top-N selection of the
\* screened records (relevant, ranked by score, first top_n); each
\* extraction call takes the next record of that list, which has not been
\* extracted before, and changes nothing else; and a list returned while
\* the token is not cancelled has both extracted fields on every record.
C20_ExtractionOnlyTopN ==
    [][\A t \in TaskIds :
          /\ pc[t] \in ExtractLabels =>
                /\ Len(top_results[t]) <= top_n[t]
                /\ Unextracted(top_results[t]) =
                      Slice(results_sorted(relevant_results(results[t])), top_n[t])
                /\ \A i \in 1..Len(top_results[t]) :
                      top_results[t][i].extracted <=>
                         (pc[t] \notin {"check5", "step6"} /\ i <= idx[t])
          /\ (pc[t] = "extract" /\ pc'[t] # pc[t]) =>
                /\ idx[t] + 1 \in 1..Len(top_results[t])
                /\ ~top_results[t][idx[t] + 1].extracted
                /\ top_results'[t] =
                      [top_results[t] EXCEPT ![idx[t] + 1].extracted = TRUE]
                /\ results'[t] = results[t]
          /\ (pc[t] \in {"returned", "set_result"} /\ ~token_cancelled[t]) =>
                \A i \in 1..Len(top_results[t]) : top_results[t][i].extracted]_vars

\* The loop has ended with every selected record extracted, while a
\* relevant screened record was left out of the selection.
C20_Witness ==
    \E t \in TaskIds :
       /\ pc[t] = "final"
       /\ top_results[t] # << >>
       /\ Len(relevant_results(results[t])) > Len(top_results[t])
       /\ \A i \in 1..Len(top_results[t]) : top_results[t][i].extracted

\* C21: the cancel/completion race is reachable.  A worker that is past its
\* exit check (or in its except clause) when cancel_task forces the status to
\* cancelled and sets the token still makes its write: the status becomes
\* completed or failed, and the token stays cancelled.
C21_CancelCompletionRace ==
    [][\A t \in tasks :
          (/\ pc[t] \in {"set_result", "except"}
           /\ pc'[t] = "done"
           /\ token_cancelled[t]
           /\ task_info[t].status = "cancelled")
          => /\ task_info'[t].status =
                   (IF pc[t] = "set_result" THEN "completed" ELSE "failed")
             /\ token_cancelled'[t]]_vars

\* The worker has exited, the task reads completed with the result of the
\* run, and its token is cancelled.
C21_Witness ==
    \E t \in tasks :
        /\ pc[t] = "done"
        /\ token_cancelled[t]
        /\ task_info[t].status = "completed"
        /\ task_info[t].result # NoResult

\* C22: update_progress, update_status, set_result and set_error on an id
\* that is not in the task map are no-ops and do not raise.  While an id is
\* absent, only create_task (for a fresh id) puts it into the map, the object
\* it named is not written, and a worker at one of its writes goes on to its
\* next statement, never to the except clause.
C22_AbsentIdWriteNoOp ==
    [][\A t \in TaskIds :
          t \notin tasks =>
             /\ t \in tasks' => (next_id = t /\ next_id' = t + 1)
             /\ t \notin tasks' => task_info'[t] = task_info[t]
             /\ pc[t] \in {"update_status", "set_result", "except"}
                   => pc'[t] \in {pc[t], "done"}
             /\ pc[t] \in ReportLabels => pc'[t] # "except"]_vars

\* The worker has made the progress update of step 1 after the reaper
\* removed its task: the update left no trace and the id is still absent.
C22_Witness ==
    \E t \in TaskIds :
        /\ t \notin tasks
        /\ pc[t] = "check1"
        /\ task_info[t].progress = NoProgress
        /\ task_info[t].status = "cancelled"

\* The place of a progress snapshot in the order search_gene writes them:
\* by step number, and within a loop by the item count.
ProgressRank(p) ==
    IF p = NoProgress THEN 0
    ELSE p.step_number * (MaxPapers + 3) + p.papers_screened + 2

\* C23: a poller sees a task's progress snapshots in the order the worker
\* wrote them.  The progress of a poll's answer is never an earlier write
\* than the progress of the last answer the client got for the same task.
C23_PollOrder ==
    poll_pc = "respond"
       => ProgressRank(poll_view.progress) >= ProgressRank(poll_seen[poll_ref])

\* Two polls in a row answered with different snapshots: the second answer
\* is ready and carries a later write than the first.
C23_Witness ==
    /\ poll_pc = "respond"
    /\ poll_seen[poll_ref] # NoProgress
    /\ ProgressRank(poll_view.progress) > ProgressRank(poll_seen[poll_ref])

\* C24: when the scoring collaborator's answer does not set the relevance
\* flag, the recorded flag of the item is true exactly when its score is at
\* least 0.5.
C24_RelevanceDefaultsToThreshold ==
    [][\A t \in TaskIds :
          (/\ pc[t] = "screen"
           /\ pc'[t] # pc[t]
           /\ answer[t].kind = "json"
           /\ ~answer[t].has_relevant)
          => (results'[t][Len(results'[t])].relevant
                 <=> answer[t].score >= RelevanceThreshold)]_vars

\* C25: when search_gene has returned and the token reads cancelled at the
\* worker's exit check, the worker goes to update_status and not to
\* set_result; from there on it writes neither a result nor an error, and
\* the task's status is cancelled when the worker exits.
C25_CancelledExitWritesNoResult ==
    [][\A t \in TaskIds :
          /\ (pc[t] = "returned" /\ Cancelled(t) /\ pc'[t] # pc[t])
                => pc'[t] = "update_status"
          /\ pc[t] = "update_status"
                => /\ task_info'[t].result = task_info[t].result
                   /\ task_info'[t].error = task_info[t].error
                   /\ pc'[t] \in {"update_status", "done"}
                   /\ (pc'[t] = "done" /\ t \in tasks)
                         => task_info'[t].status = "cancelled"]_vars

\* The worker of a run that got past step 1 has exited through the cancelled
\* branch: status cancelled, no result, no error.
C25_Witness ==
    \E t \in tasks :
        /\ pc[t] = "done"
        /\ token_cancelled[t]
        /\ task_info[t].progress # NoProgress
        /\ task_info[t].status = "cancelled"
        /\ task_info[t].result = NoResult
        /\ task_info[t].error = NoError

\* C26: a reaper pass removes from the task map exactly the tasks that are
\* terminal and older than the retention window (by the cutoff the pass
\* computed), each together with its cancellation token, and nothing else;
\* hence a terminal task is eventually evicted, unless later writes move
\* its updated_at so far that its window ends beyond the clock's horizon.
C26_ReaperEvicts ==
    /\ [][(reaper_pc = "sweep" /\ reaper_pc' = "wait") =>
             /\ tasks' \subseteq tasks
             /\ cancellation_tokens' \subseteq cancellation_tokens
             /\ tasks \ tasks' =
                   {t \in tasks : /\ task_info[t].status \in Terminal
                                  /\ task_info[t].updated_at < cutoff_time}
             /\ cancellation_tokens \ cancellation_tokens' =
                   (tasks \ tasks') \cap cancellation_tokens]_vars
    /\ \A t \in TaskIds :
          []((/\ t \in tasks
              /\ task_info[t].status \in Terminal
              /\ task_info[t].updated_at + RetentionTicks < MaxNow)
             => <>(\/ t \notin tasks
                   \/ task_info[t].updated_at + RetentionTicks >= MaxNow))

\* A pass has just removed a cancelled or failed task and its token.
C26_Witness ==
    \E t \in TaskIds :
        /\ t < next_id
        /\ t \notin tasks
        /\ t \notin cancellation_tokens
        /\ task_info[t].status \in Terminal
        /\ reaper_pc = "wait"

\* C27: during Screen the progress update of an item follows its screening.
\* While the task's progress is one of Screen's, papers_screened is at most
\* the number of papers whose scoring call has returned, at most
\* total_papers, and never decreases; it equals total_papers when the loop
\* ends with the token not cancelled.
C27_ScreenProgressCountsScreened ==
    [][\A t \in tasks :
          LET before == task_info[t].progress
              after  == task_info'[t].progress
          IN  after.current_step = "Screening papers" =>
                /\ after.papers_screened
                      <= Len(results'[t]) + (IF pc'[t] = "screen" THEN 1 ELSE 0)
                /\ after.papers_screened <= after.total_papers
                /\ before.current_step = "Screening papers"
                      => after.papers_screened >= before.papers_screened
                /\ (pc[t] = "screen_check" /\ pc'[t] = "step5" /\ ~Cancelled(t))
                      => after.papers_screened = after.total_papers]_vars

\* C28: every run that got past Search with a non-empty id list ends in
\* Done.  Whenever such a run of search_gene returns (any return but the ones
\* of the checkpoint before Search and of the empty id list), the step that
\* returns makes the final progress update, which states cancellation only
\* when the token is cancelled and completion only when the pipeline read it
\* as not cancelled.
C28_EveryExitEndsInDone ==
    [][\A t \in tasks :
          (/\ pc[t] \notin {"returned", "check1", "no_papers"}
           /\ pc'[t] = "returned")
          => LET final == task_info'[t].progress.current_step
             IN  /\ final \in {"Search completed", "Search cancelled"}
                 /\ final = "Search cancelled" => token_cancelled[t]
                 /\ final = "Search completed" => pc[t] = "final_completed"]_vars

\* C29: when the checkpoint at the head of the extraction loop reads the
\* token cancelled before item idx + 1, the loop is left with the list
\* untouched and no further extraction call is made; the list is not touched
\* again before search_gene returns it, and the returned list is the whole
\* ranked selection, whose first idx records have the extracted fields and
\* whose other records have not.
C29_ExtractionStopsAtCancel ==
    [][\A t \in TaskIds :
          /\ (pc[t] = "extract_check" /\ Cancelled(t) /\ pc'[t] # pc[t])
                => /\ pc'[t] = "final"
                   /\ top_results'[t] = top_results[t]
          /\ pc[t] \in {"final", "final_cancelled", "final_completed"}
                => /\ top_results'[t] = top_results[t]
                   /\ pc'[t] \in {"final", "final_cancelled", "final_completed",
                                  "returned"}
          /\ (pc[t] \in {"final_cancelled", "final_completed"}
                /\ pc'[t] = "returned" /\ top_results[t] # << >>)
                => /\ Unextracted(top_results'[t]) =
                         Slice(results_sorted(relevant_results(results[t])), top_n[t])
                   /\ \A i \in 1..Len(top_results'[t]) :
                         top_results'[t][i].extracted <=> i <= idx[t]]_vars

\* search_gene has returned a selection of two records, of which the first
\* was extracted before the cancellation was seen and the second was not.
C29_Witness ==
    \E t \in TaskIds :
        /\ pc[t] = "returned"
        /\ token_cancelled[t]
        /\ Len(top_results[t]) = 2
        /\ top_results[t][1].extracted
        /\ ~top_results[t][2].extracted

\* Record a comes before record b in a stable descending sort on score:
\* higher score first, and of two equal scores the one fetched first
\* (records are fetched in order of pmid).
RanksBefore(a, b) ==
    a.score > b.score \/ (a.score = b.score /\ a.pmid < b.pmid)

\* C30: RankAndSelect is a stable descending sort on score alone, followed
\* by the selection of the first top_n.  Whenever the ranking step yields
\* a list, the list holds min(top_n, number of relevant records) relevant
\* screened records, each ranking before the next, and every relevant
\* record left out ranks after every record selected.
C30_StableDescendingSort ==
    [][\A t \in TaskIds :
          (pc[t] = "rank" /\ pc'[t] = "check5") =>
             LET rel == relevant_results(results[t])
                 top == top_results'[t]
                 Rel == {rel[i] : i \in 1..Len(rel)}
                 Top == {top[i] : i \in 1..Len(top)}
             IN  /\ Len(top) = (IF top_n[t] < Len(rel) THEN top_n[t] ELSE Len(rel))
                 /\ Top \subseteq Rel
                 /\ \A i \in 1..(Len(top) - 1) : RanksBefore(top[i], top[i + 1])
                 /\ \A r \in Rel \ Top : \A s \in Top : RanksBefore(s, r)]_vars

\* Two relevant records of equal score were ranked: both were selected and
\* stand in the order they were fetched in.
C30_Witness ==
    \E t \in TaskIds :
        /\ pc[t] = "check5"
        /\ Len(results[t]) = 2
        /\ results[t][1].relevant /\ results[t][2].relevant
        /\ results[t][1].score = results[t][2].score
        /\ top_results[t] = results[t]

\* C31: no thread holds the registry lock (or a token's lock) while a
\* collaborator call of its own is in flight, and the lock is held only by
\* a thread inside a manager method's critical section.
C31_NoLockAcrossCollaboratorCall ==
    /\ \A th \in Threads :
          frame[th].at = "in_call" =>
             /\ manager_lock # th
             /\ \A t \in TaskIds : token_lock[t] # th
    /\ manager_lock # NoThread =>
          /\ frame[manager_lock].call \in ManagerCalls(manager_lock)
          /\ frame[manager_lock].at \in
                {"locked", "token_wait", "token_locked", "unlocking"}

\* A worker's collaborator call is in flight while another thread is inside
\* a critical section of the manager.
C31_Witness ==
    \E th \in Threads :
        /\ frame[th].at = "in_call"
        /\ manager_lock \notin {NoThread, th}

\* C32: every registry operation touches only the entry and the token of
\* the id it is given.  In every step of create_task, update_progress,
\* update_status, set_result, set_error or cancel_task there is one id such
\* that the status, progress, result, error, updated_at, token and map
\* membership of every other id are unchanged.
C32_OtherTasksUnchanged ==
    [][\E a \in RegistryIds :
          \A b \in RegistryIds \ {a} :
             /\ task_info'[b] = task_info[b]
             /\ token_cancelled'[b] = token_cancelled[b]
             /\ b \in tasks' <=> b \in tasks
             /\ b \in cancellation_tokens' <=> b \in cancellation_tokens]_vars

\* Both tasks exist; one was completed and then cancelled at a later tick,
\* while the other is still as create_task left it.
C32_Witness ==
    \E a \in tasks : \E b \in tasks :
        /\ task_info[a].status = "cancelled"
        /\ task_info[a].result # NoResult
        /\ token_cancelled[a]
        /\ task_info[a].updated_at > task_info[b].updated_at
        /\ task_info[b].status = "pending"
        /\ ~token_cancelled[b]

\* C33: in every reachable state the task map and the token map have the
\* same keys: no task without a token, no token without a task.
C33_SameKeys ==
    tasks = cancellation_tokens

\* The reaper has removed a cancelled task, with its token, while the
\* task's worker had not yet finished.
C33_Witness ==
    \E t \in TaskIds :
        /\ t < next_id
        /\ t \notin tasks
        /\ t \notin cancellation_tokens
        /\ pc[t] \in {"get_token", "call", "except"}

\* The labels of a pipeline that has passed a checkpoint and goes on to more
\* work: the progress reports before a call, and the calls.
OnwardLabels ==
    {"step2", "search", "step3", "fetch", "step4", "screen_report", "invoke",
     "step6", "extract_report", "extract", "final_completed"}

\* C34: once a task's token is set, its pipeline begins at most one more
\* collaborator call (the one whose checkpoint it had passed), and after
\* that call it is never again past a checkpoint on the way to more work:
\* the checkpoints it comes to end the loop or the run.
C34_BoundedResponseToCancel ==
    \A t \in DOMAIN late_calls :
        /\ late_calls[t] <= 1
        /\ late_calls[t] = 1 => pc[t] \notin OnwardLabels

\* A call was begun with the token set, and the pipeline has returned.
C34_Witness ==
    \E t \in DOMAIN late_calls : late_calls[t] = 1 /\ pc[t] = "returned"

\* C35: a worker that has made its terminal write (set_result, set_error or
\* update_status cancelled) has exited and writes nothing more: while the
\* task is in the map its status is terminal, the worker stays exited, the
\* task's progress, result and error stay as they are, and a step that
\* changes the status is a cancel_task, which sets the token and writes
\* cancelled.
C35_TerminalAfterWorkerExit ==
    /\ [](\A t \in tasks : pc[t] = "done" => task_info[t].status \in Terminal)
    /\ [][\A t \in tasks :
             (pc[t] = "done" /\ t \in tasks') =>
                /\ pc'[t] = "done"
                /\ task_info'[t].status \in Terminal
                /\ task_info'[t].progress = task_info[t].progress
                /\ task_info'[t].result = task_info[t].result
                /\ task_info'[t].error = task_info[t].error
                /\ task_info'[t].status # task_info[t].status =>
                      /\ task_info'[t].status = "cancelled"
                      /\ token_cancelled'[t]]_vars

\* The worker wrote the result and exited, and a cancel_task after that
\* changed completed to cancelled.
C35_Witness ==
    \E t \in tasks :
        /\ pc[t] = "done"
        /\ task_info[t].status = "cancelled"
        /\ task_info[t].result # NoResult

\* C36: under fair scheduling of the worker, with every collaborator call
\* returning or raising, a started worker eventually exits with its task in
\* a terminal status, whatever cancel requests arrive and whenever.
C36_WorkerTerminates ==
    \A t \in TaskIds :
        (pc[t] # "idle") ~>
            (pc[t] = "done" /\ (t \in tasks => task_info[t].status \in Terminal))

\* A run that nobody cancelled went through both loops and exited.
C36_Witness ==
    \E t \in tasks :
        /\ pc[t] = "done"
        /\ ~token_cancelled[t]
        /\ task_info[t].status = "completed"
        /\ task_info[t].result.count >= 1

\* C37: every progress snapshot a pipeline run has written satisfies
\* 1 <= step_number <= total_steps.
C37_StepNumberInRange ==
    \A t \in tasks :
        task_info[t].progress # NoProgress =>
            /\ 1 <= task_info[t].progress.step_number
            /\ task_info[t].progress.step_number <= task_info[t].progress.total_steps

\* C38: within one run the step_number of successive progress updates never
\* decreases: each update passes a step_number at least that of the
\* snapshot the run wrote before it.
C38_StepNumberMonotonic ==
    [][\A t \in tasks :
          IsUpdate(t) =>
             task_info'[t].progress.step_number >= task_info[t].progress.step_number]_vars

\* A run cancelled inside a loop has reported its last step.
C38_Witness ==
    \E t \in tasks :
        /\ pc[t] = "returned"
        /\ task_info[t].progress.current_step = "Search cancelled"
        /\ task_info[t].progress.step_number = 7

\* The thread th waits for a lock that another thread holds, and the thread
\* that holds it.
Blocked(th) ==
    \/ frame[th].at = "wait" /\ manager_lock # NoThread
    \/ frame[th].at = "token_wait" /\ token_lock[frame[th].token] # NoThread
Holder(th) ==
    IF frame[th].at = "wait" THEN manager_lock ELSE token_lock[frame[th].token]
\* The threads that can go on after at most n releases by other threads.
RECURSIVE CanRun(_)
CanRun(n) ==
    IF n = 0
    THEN {th \in Threads : ~Blocked(th)}
    ELSE CanRun(n - 1) \cup {th \in Threads : Blocked(th) /\ Holder(th) \in CanRun(n - 1)}

\* C39: the threads cannot deadlock on the manager's lock and the tokens'
\* locks.  A thread that holds a token's lock holds it alone (is_cancelled)
\* or inside the manager's critical section (cancel_task); no thread waits
\* for the manager's lock while it holds a token's lock; and every blocked
\* thread waits on a chain of holders that ends at a thread able to run.
C39_NoDeadlock ==
    /\ \A th \in Threads : \A t \in TaskIds :
          token_lock[t] = th =>
             /\ frame[th].at = "token_locked"
             /\ frame[th].token = t
             /\ \/ frame[th].call = "is_cancelled" /\ manager_lock # th
                \/ frame[th].call = "cancel_task" /\ manager_lock = th
    /\ \A th \in Threads :
          frame[th].at = "wait" => \A t \in TaskIds : token_lock[t] # th
    /\ CanRun(Cardinality(Threads)) = Threads

\* cancel_task, inside the manager's critical section, waits for the lock of
\* a token that a worker's is_cancelled holds, while the status handler
\* waits for the manager's lock.
C39_Witness ==
    /\ manager_lock = <<"client", 0>>
    /\ frame[<<"client", 0>>].at = "token_wait"
    /\ token_lock[frame[<<"client", 0>>].token][1] = "worker"
    /\ frame[<<"poller", 0>>].at = "wait"

====
